---- MODULE Spec2Model ----
(***************************************************************************)
(* Model of the frequency-histogram script (src/a.py).                     *)
(*                                                                         *)
(* The script is a straight line of statements; each statement is one      *)
(* action and pc names the statement that runs next.  Python values are    *)
(* written as the string of their repr: "1" is the int 1, "a" the str      *)
(* 'a', "[1]" the list [1] (which is unhashable).  A dict is modelled as   *)
(* the sequence of its <<key, value>> items in insertion order, which is   *)
(* what keys() and values() iterate over.                                  *)
(*                                                                         *)
(* The plotting library is outside the script.  Whether one of its calls   *)
(* raises in this run's environment (e.g. no display surface) is fixed by  *)
(* rendererFault, chosen in Init; the script itself catches nothing, so    *)
(* an exception raised by any statement ends the run.                      *)
(***************************************************************************)
EXTENDS Integers, Sequences, FiniteSets, TLC

\* ---------------------------------------------------------------- bounds
MaxLen == 3

\* ---------------------------------------------------------------- inputs
Hashable == {"1", "2", "3", "5", "a", "b"}
Unhashable == {"[1]"}
Elems == Hashable \cup Unhashable

Scenario1 == <<"1", "1", "2", "3", "3", "3">>
Scenario2 == <<"a", "b", "a">>
Scenario4 == <<"5">>

BoundedSeq(S, n) == UNION {[1..k -> S] : k \in 0..n}
Inputs == BoundedSeq(Elems, MaxLen) \cup {Scenario1, Scenario2, Scenario4}

RenderCalls == {"bar", "xlabel", "ylabel", "title", "show"}
Faults == {"none"} \cup RenderCalls

VARIABLES pc, data, frequency_count, values, frequencies, bound,
          bars, xlabel, ylabel, title, shown, dismissed,
          err, rendererFault, trace

vars == <<pc, data, frequency_count, values, frequencies, bound,
          bars, xlabel, ylabel, title, shown, dismissed,
          err, rendererFault, trace>>

names == <<frequency_count, values, frequencies, bound>>
chart == <<bars, xlabel, ylabel, title, shown, dismissed>>

\* ------------------------------------------------- collections.Counter
\* index of key e among the items of dict c, 0 when e is not a key
KeyIndex(c, e) ==
  IF \E i \in DOMAIN c : c[i][1] = e
  THEN CHOOSE i \in DOMAIN c : c[i][1] = e
  ELSE 0

\* mutant: an element seen again does not raise its count
CounterAdd_NoIncrement(c, e) ==
  IF KeyIndex(c, e) = 0 THEN Append(c, <<e, 1>>) ELSE c

\* mutant: every element gets an item of its own
CounterAdd_AlwaysAppend(c, e) == Append(c, <<e, 1>>)

\* mapping[elem] = mapping.get(elem, 0) + 1
CounterAdd(c, e) ==
  LET i == KeyIndex(c, e)
  IN IF i = 0 THEN Append(c, <<e, 1>>)
              ELSE [c EXCEPT ![i] = <<e, c[i][2] + 1>>]

RECURSIVE CountElements(_, _)
CountElements(c, s) ==
  IF s = <<>> THEN c
  ELSE CountElements(CounterAdd(c, Head(s)), Tail(s))

\* mutant: the first element of the iterable is not counted
Counter_SkipsFirst(s) ==
  IF s = <<>> THEN <<>> ELSE CountElements(<<>>, Tail(s))

\* Counter(iterable)
Counter(s) == CountElements(<<>>, s)

\* hashing an element of the iterable raises TypeError
Raises(s) == \E i \in DOMAIN s : s[i] \in Unhashable

\* mutant: the counts come out in the opposite order to the keys
DictValues_Reversed(c) == [i \in DOMAIN c |-> c[Len(c) + 1 - i][2]]

\* list(d.keys()), list(d.values())
DictKeys(c) == [i \in DOMAIN c |-> c[i][1]]
DictValues(c) == [i \in DOMAIN c |-> c[i][2]]

\* ------------------------------------------------------------ plt.bar
\* x and height are broadcast against each other
\* mutant: empty arrays are rejected
Compatible_NonEmpty(x, h) == Len(x) > 0 /\ Len(x) = Len(h)

Compatible(x, h) == Len(x) = Len(h) \/ Len(x) = 1 \/ Len(h) = 1
BarLen(x, h) == IF Len(x) >= Len(h) THEN Len(x) ELSE Len(h)
Broadcast(s, n) == IF Len(s) = n THEN s ELSE [i \in 1..n |-> s[1]]
BarContainer(x, h) ==
  LET n == IF Len(x) = 0 \/ Len(h) = 0 THEN 0 ELSE BarLen(x, h)
  IN [i \in 1..n |-> <<Broadcast(x, n)[i], Broadcast(h, n)[i]>>]

\* ---------------------------------------------------------------- Init
Init ==
  /\ data \in Inputs
  /\ rendererFault \in Faults
  /\ pc = "count"
  /\ frequency_count = <<>>
  /\ values = <<>>
  /\ frequencies = <<>>
  /\ bound = {}
  /\ bars = <<>>
  /\ xlabel = ""
  /\ ylabel = ""
  /\ title = ""
  /\ shown = FALSE
  /\ dismissed = FALSE
  /\ err = "none"
  /\ trace = <<>>

\* an uncaught exception ends the run
Abort(step, e) ==
  /\ pc' = "error"
  /\ err' = e
  /\ trace' = Append(trace, step)

Advance(step, next) ==
  /\ pc' = next
  /\ err' = err
  /\ trace' = Append(trace, step)

\* mutant: the counts gathered before the failing element are kept
Count_KeepsPartial ==
  /\ pc = "count"
  /\ IF Raises(data)
     THEN /\ Abort("count", "TypeError")
          /\ frequency_count' =
               Counter(SubSeq(data, 1,
                 (CHOOSE i \in DOMAIN data :
                    /\ data[i] \in Unhashable
                    /\ \A j \in 1..(i - 1) : data[j] \in Hashable) - 1))
          /\ bound' = bound \cup {"frequency_count"}
     ELSE /\ Advance("count", "values")
          /\ frequency_count' = Counter(data)
          /\ bound' = bound \cup {"frequency_count"}
  /\ UNCHANGED <<data, values, frequencies, chart, rendererFault>>

\* mutant: counting consumes the input
Count_Consumes ==
  /\ pc = "count"
  /\ IF Raises(data)
     THEN /\ Abort("count", "TypeError")
          /\ UNCHANGED <<frequency_count, bound>>
     ELSE /\ Advance("count", "values")
          /\ frequency_count' = Counter(data)
          /\ bound' = bound \cup {"frequency_count"}
  /\ data' = <<>>
  /\ UNCHANGED <<values, frequencies, chart, rendererFault>>

\* frequency_count = Counter(data)
Count ==
  /\ pc = "count"
  /\ IF Raises(data)
     THEN /\ Abort("count", "TypeError")
          /\ UNCHANGED <<frequency_count, bound>>
     ELSE /\ Advance("count", "values")
          /\ frequency_count' = Counter(data)
          /\ bound' = bound \cup {"frequency_count"}
  /\ UNCHANGED <<data, values, frequencies, chart, rendererFault>>

\* values = list(frequency_count.keys())
ExtractValues ==
  /\ pc = "values"
  /\ Advance("values", "frequencies")
  /\ values' = DictKeys(frequency_count)
  /\ bound' = bound \cup {"values"}
  /\ UNCHANGED <<data, frequency_count, frequencies, chart, rendererFault>>

\* frequencies = list(frequency_count.values())
ExtractFrequencies ==
  /\ pc = "frequencies"
  /\ Advance("frequencies", "bar")
  /\ frequencies' = DictValues(frequency_count)
  /\ bound' = bound \cup {"frequencies"}
  /\ UNCHANGED <<data, frequency_count, values, chart, rendererFault>>

\* plt.bar(values, frequencies)
Bar ==
  /\ pc = "bar"
  /\ IF rendererFault = "bar"
     THEN Abort("bar", "RenderError") /\ UNCHANGED bars
     ELSE IF ~Compatible(values, frequencies)
     THEN Abort("bar", "ValueError") /\ UNCHANGED bars
     ELSE /\ Advance("bar", "xlabel")
          /\ bars' = bars \o BarContainer(values, frequencies)
  /\ UNCHANGED <<data, names, xlabel, ylabel, title, shown, dismissed,
                 rendererFault>>

\* mutant: the horizontal axis gets the vertical axis' label
XLabel_Swapped ==
  /\ pc = "xlabel"
  /\ IF rendererFault = "xlabel"
     THEN Abort("xlabel", "RenderError") /\ UNCHANGED xlabel
     ELSE Advance("xlabel", "ylabel") /\ xlabel' = "Frequency"
  /\ UNCHANGED <<data, names, bars, ylabel, title, shown, dismissed,
                 rendererFault>>

\* plt.xlabel('Values')
XLabel ==
  /\ pc = "xlabel"
  /\ IF rendererFault = "xlabel"
     THEN Abort("xlabel", "RenderError") /\ UNCHANGED xlabel
     ELSE Advance("xlabel", "ylabel") /\ xlabel' = "Values"
  /\ UNCHANGED <<data, names, bars, ylabel, title, shown, dismissed,
                 rendererFault>>

\* mutant: the chart is shown right after the vertical label, untitled
YLabel_SkipsTitle ==
  /\ pc = "ylabel"
  /\ IF rendererFault = "ylabel"
     THEN Abort("ylabel", "RenderError") /\ UNCHANGED ylabel
     ELSE Advance("ylabel", "show") /\ ylabel' = "Frequency"
  /\ UNCHANGED <<data, names, bars, xlabel, title, shown, dismissed,
                 rendererFault>>

\* plt.ylabel('Frequency')
YLabel ==
  /\ pc = "ylabel"
  /\ IF rendererFault = "ylabel"
     THEN Abort("ylabel", "RenderError") /\ UNCHANGED ylabel
     ELSE Advance("ylabel", "title") /\ ylabel' = "Frequency"
  /\ UNCHANGED <<data, names, bars, xlabel, title, shown, dismissed,
                 rendererFault>>

\* plt.title('Histogram of Frequencies')
Title ==
  /\ pc = "title"
  /\ IF rendererFault = "title"
     THEN Abort("title", "RenderError") /\ UNCHANGED title
     ELSE Advance("title", "show") /\ title' = "Histogram of Frequencies"
  /\ UNCHANGED <<data, names, bars, xlabel, ylabel, shown, dismissed,
                 rendererFault>>

\* plt.show(): the chart is presented and the call blocks
Show ==
  /\ pc = "show"
  /\ IF rendererFault = "show"
     THEN Abort("show", "RenderError") /\ UNCHANGED shown
     ELSE Advance("show", "showing") /\ shown' = TRUE
  /\ UNCHANGED <<data, names, bars, xlabel, ylabel, title, dismissed,
                 rendererFault>>

\* the user closes the window
Dismiss ==
  /\ pc = "showing"
  /\ ~dismissed
  /\ dismissed' = TRUE
  /\ UNCHANGED <<pc, err, trace, data, names, bars, xlabel, ylabel, title,
                 shown, rendererFault>>

\* plt.show() returns; the script ends after its last statement
Exit ==
  /\ pc = "showing"
  /\ dismissed
  /\ Advance("exit", "done")
  /\ UNCHANGED <<data, names, chart, rendererFault>>

Step ==
  \/ Count
  \/ ExtractValues
  \/ ExtractFrequencies
  \/ Bar
  \/ XLabel
  \/ YLabel
  \/ Title
  \/ Show
  \/ Exit

Next == Step \/ Dismiss

Spec == Init /\ [][Next]_vars

\* the interpreter runs the next statement whenever there is one; the user
\* is under no obligation to close the window
FairSpec == Spec /\ WF_vars(Step)

\* ------------------------------------------------------------ helpers
Range(s) == {s[i] : i \in DOMAIN s}
Occurrences(s, v) == Cardinality({i \in DOMAIN s : s[i] = v})
\* d[k], 0 for a missing key
Get(c, k) == IF KeyIndex(c, k) = 0 THEN 0 ELSE c[KeyIndex(c, k)][2]
RECURSIVE Sum(_)
Sum(s) == IF s = <<>> THEN 0 ELSE Head(s) + Sum(Tail(s))
IsPrefix(s, t) == Len(s) <= Len(t) /\ \A i \in DOMAIN s : s[i] = t[i]
Counted == "frequency_count" \in bound
Drawn == \E i \in DOMAIN trace : trace[i] = "bar"
ProgramOrder == <<"count", "values", "frequencies", "bar", "xlabel",
                  "ylabel", "title", "show", "exit">>

\* ------------------------------------------------------------ claims

\* C1: once the counting step has run, every distinct value v of the input
\* is associated with exactly the number of positions of the input that
\* hold v; in particular [1,1,2,3,3,3] gives {1:2, 2:1, 3:3} and
\* ["a","b","a"] gives {"a":2, "b":1}.
C1_CountsAreOccurrences ==
  Counted =>
    /\ \A v \in Range(data) : Get(frequency_count, v) = Occurrences(data, v)
    /\ data = Scenario1 =>
         frequency_count = <<<<"1", 2>>, <<"2", 1>>, <<"3", 3>>>>
    /\ data = Scenario2 => frequency_count = <<<<"a", 2>>, <<"b", 1>>>>

C1_Witness ==
  /\ Counted
  /\ data = Scenario1
  /\ Get(frequency_count, "3") = 3

\* C2: the counts stored in the frequency mapping (and the frequencies list
\* extracted from it) add up to the length of the input sequence.
C2_SumIsLength ==
  /\ Counted => Sum(DictValues(frequency_count)) = Len(data)
  /\ "frequencies" \in bound => Sum(frequencies) = Len(data)

C2_Witness ==
  /\ "frequencies" \in bound
  /\ Len(data) = MaxLen
  /\ Len(frequencies) = 2

\* C3: the keys of the frequency mapping are exactly the distinct elements
\* of the input, each key occurs once, and every stored count is positive.
C3_KeysAreDistinctElements ==
  Counted =>
    /\ Range(DictKeys(frequency_count)) = Range(data)
    /\ \A i, j \in DOMAIN frequency_count :
         frequency_count[i][1] = frequency_count[j][1] => i = j
    /\ \A i \in DOMAIN frequency_count : frequency_count[i][2] > 0

C3_Witness ==
  /\ Counted
  /\ Len(data) = 3
  /\ Cardinality(Range(data)) = 2
  /\ Len(frequency_count) = 2

\* C4: once the bar call has returned, there is exactly one bar per distinct
\* value of the input, values and frequencies have the same length, the
\* i-th bar pairs values[i] with frequencies[i], and frequencies[i] is the
\* number of occurrences of values[i] in the input ([5] gives one bar of
\* height 1).
C4_OneBarPerValue ==
  (Drawn /\ err = "none") =>
    /\ Len(values) = Len(frequencies)
    /\ Len(bars) = Cardinality(Range(data))
    /\ Range(DictKeys(bars)) = Range(data)
    /\ \A i \in DOMAIN bars :
         /\ bars[i] = <<values[i], frequencies[i]>>
         /\ frequencies[i] = Occurrences(data, values[i])
    /\ data = Scenario4 => bars = << <<"5", 1>> >>

C4_Witness ==
  /\ Drawn
  /\ err = "none"
  /\ Len(bars) = 3
  /\ \E i, j \in DOMAIN bars : bars[i][2] # bars[j][2]

\* C5: with an empty input the frequency mapping is empty, the bar call
\* draws zero bars, no statement of the script raises because of the input,
\* and where the plotting library does not fail the run reaches the display
\* step (and ends once the window is dismissed) without an error.
C5_EmptyState ==
  data = <<>> =>
    /\ err \notin {"TypeError", "ValueError"}
    /\ Counted => frequency_count = <<>>
    /\ bars = <<>>
    /\ rendererFault = "none" => pc # "error"

C5_EmptyInput ==
  /\ []C5_EmptyState
  /\ (data = <<>> /\ rendererFault = "none")
       ~> (shown /\ Drawn /\ bars = <<>> /\ err = "none")
  /\ (data = <<>> /\ rendererFault = "none" /\ dismissed)
       ~> (pc = "done" /\ err = "none")

C5_Witness ==
  /\ data = <<>>
  /\ pc = "done"
  /\ Drawn
  /\ shown
  /\ bars = <<>>
  /\ frequency_count = <<>>

\* C7: whenever the chart is presented, its horizontal axis label is
\* "Values", its vertical axis label is "Frequency" and its title is
\* "Histogram of Frequencies".
C7_LabelsWhenShown ==
  shown =>
    /\ xlabel = "Values"
    /\ ylabel = "Frequency"
    /\ title = "Histogram of Frequencies"

C7_Witness ==
  /\ shown
  /\ pc = "showing"
  /\ data # <<>>
  /\ xlabel = "Values"

\* C8: a failure ends the run with no partial result.  A failed counting
\* step is a TypeError raised by the first statement: nothing is bound, no
\* bar is drawn, no label or title is set and the chart is not shown.  A
\* failed rendering call leaves the chart not shown.  The error state is
\* final: no statement runs after it, so no step is retried.
C8_ErrorState ==
  /\ Raises(data) /\ pc # "count" =>
       /\ pc = "error"
       /\ err = "TypeError"
       /\ trace = <<"count">>
  /\ err = "TypeError" =>
       /\ bound = {}
       /\ frequency_count = <<>>
       /\ bars = <<>>
       /\ xlabel = "" /\ ylabel = "" /\ title = ""
       /\ ~shown
  /\ pc = "error" <=> err # "none"
  /\ pc = "error" => ~shown /\ ~dismissed

C8_FailureAborts ==
  /\ []C8_ErrorState
  /\ [][pc = "error" => UNCHANGED vars]_vars
  /\ [][\A i \in DOMAIN trace : trace'[Len(trace')] # trace[i]]_trace

C8_Witness ==
  /\ pc = "error"
  /\ err = "TypeError"
  /\ Len(data) = 3
  /\ data[1] \in Hashable
  /\ data[3] \in Unhashable

C8_WitnessRender ==
  /\ pc = "error"
  /\ err = "RenderError"
  /\ trace[Len(trace)] = "title"

\* C9: the statements run in one fixed order, each at most once: counting
\* before drawing, drawing before labelling, showing only after bars, both
\* labels and the title are in place; the chart is shown at most once, and
\* once the display is dismissed the run terminates.
C9_OrderState ==
  /\ IsPrefix(trace, ProgramOrder)
  /\ Drawn => Counted
  /\ (xlabel # "" \/ ylabel # "" \/ title # "") => Drawn
  /\ shown => Drawn /\ xlabel # "" /\ ylabel # "" /\ title # ""
  /\ shown <=> \E i \in DOMAIN trace : trace[i] = "show" /\ err = "none"
  /\ pc = "done" => shown /\ dismissed /\ trace = ProgramOrder

C9_SinglePass ==
  /\ []C9_OrderState
  /\ [][shown => shown']_vars
  /\ dismissed ~> (pc = "done")

C9_Witness ==
  /\ pc = "done"
  /\ trace = ProgramOrder
  /\ Len(bars) = 2

\* C10: no step changes the input sequence, and once the frequency mapping
\* is bound no later step changes it.
C10_Frame ==
  /\ [][data' = data]_vars
  /\ [][Counted => frequency_count' = frequency_count]_vars

C10_Witness ==
  /\ pc = "done"
  /\ Len(data) = 2
  /\ Len(frequency_count) = 1

====
